---- MODULE Spec2Model ----
(***************************************************************************)
(* Model of the bella engine core: the clocks of src/src/time.rs and the   *)
(* input latch of src/src/input.rs.                                        *)
(*                                                                         *)
(* Durations and Instants are integers counting nanoseconds.  An f64 is    *)
(* modelled by the exact rational it holds, a normalised pair <<n, d>>.    *)
(* An Option<T> is <<>> (None) or <<v>> (Some(v)).                         *)
(***************************************************************************)
EXTENDS Integers, Sequences, FiniteSets, TLC

VARIABLES real_time, virtual_time, time,
          key_down_queue, key_up_queue,
          mouse_pos_queue, mouse_down_queue, mouse_up_queue,
          key_down, key_up, key_press,
          mouse_pos, mouse_down, mouse_up, mouse_press,
          last_push, halted, pc, pushes,
          max_scene_id, scenes, scene_names, scene_result,
          phase, worlds, state, windows_created,
          width, height, new_resize, is_resizing, frame_log,
          redraw_requested, main_scene, submitted,
          assets, load_result

time_vars == <<real_time, virtual_time, time>>

input_vars == <<key_down_queue, key_up_queue,
                mouse_pos_queue, mouse_down_queue, mouse_up_queue,
                key_down, key_up, key_press,
                mouse_pos, mouse_down, mouse_up, mouse_press>>

\* The push history of the keys and whether the process has terminated.
hist_vars == <<last_push, halted>>

\* Where recieve_inputs stands, and how many events were pushed so far.
latch_vars == <<pc, pushes>>

\* The scene registry (Instance) and the Option its last call returned.
scene_vars == <<max_scene_id, scenes, scene_names, scene_result>>

\* The App, and the schedule runs of the last RedrawRequested it handled.
app_vars == <<phase, worlds, state, windows_created,
              width, height, new_resize, is_resizing, frame_log,
              redraw_requested, main_scene, submitted>>

\* The asset server's cache and what its last load_file call returned.
asset_vars == <<assets, load_result>>

\* The state outside the clocks, the input latch and the push history.
rest_vars == <<scene_vars, app_vars, asset_vars>>

vars == <<real_time, virtual_time, time,
          key_down_queue, key_up_queue,
          mouse_pos_queue, mouse_down_queue, mouse_up_queue,
          key_down, key_up, key_press,
          mouse_pos, mouse_down, mouse_up, mouse_press,
          last_push, halted, pc, pushes,
          max_scene_id, scenes, scene_names, scene_result,
          phase, worlds, state, windows_created,
          width, height, new_resize, is_resizing, frame_log,
          redraw_requested, main_scene, submitted,
          assets, load_result>>

(***************************************************************************)
(* Bounds of the model.                                                    *)
(***************************************************************************)
\* Instants offered to the real clock are InstantAt(0) .. InstantAt(MaxTick).
MaxTick == 3

\* Events waiting in the five queues together never exceed MaxPending.
MaxPending == 2

\* new_scene is called at most MaxScenes times.
MaxScenes == 3

\* A scene holds at most MaxCommands draw commands.
MaxCommands == 1

\* new_world is called at most MaxWorlds times.
MaxWorlds == 2

\* The producers push at most MaxPushes events around a stepwise latch.
MaxPushes == 3

(***************************************************************************)
(* Program constants.                                                      *)
(***************************************************************************)
NANOS_PER_SEC == 1000000000

\* Duration::from_secs(3600), in seconds (the field is never read).
DEFAULT_WRAP_PERIOD == 3600

\* Duration::from_millis(250)
DEFAULT_MAX_DELTA == 250000000

(***************************************************************************)
(* f64 values and Duration conversions.                                    *)
(***************************************************************************)
RECURSIVE Gcd(_, _)
Gcd(a, b) == IF b = 0 THEN a ELSE Gcd(b, a % b)

\* The f64 holding n/d (d > 0, n >= 0), in lowest terms.
F64(n, d) == LET g == Gcd(n, d) IN <<n \div g, d \div g>>

F64_ZERO == <<0, 1>>
F64_ONE == <<1, 1>>

\* Duration::as_secs_f64: whole nanoseconds to seconds.
as_secs_f64(d) == F64(d, NANOS_PER_SEC)

\* Duration::mul_f64(self, rhs) = from_secs_f64(rhs * self.as_secs_f64()),
\* which rounds to the nearest nanosecond.  An exact tie is decided by the
\* representation error of the f64 product, so both neighbours are possible.
mul_f64(d, rhs) ==
    LET p == d * rhs[1]
        q == p \div rhs[2]
        r == p % rhs[2]
    IN  IF r = 0 THEN {q}
        ELSE IF 2 * r < rhs[2] THEN {q}
        ELSE IF 2 * r > rhs[2] THEN {q + 1}
        ELSE {q, q + 1}

\* Instant - Instant (Instant::duration_since): saturates at zero.
InstantSub(a, b) == IF a > b THEN a - b ELSE 0

(***************************************************************************)
(* Inputs of the clock operations.                                         *)
(***************************************************************************)
\* The i-th instant offered: about 125 ms apart, so that consecutive ticks
\* fall below, on and above DEFAULT_MAX_DELTA, with odd nanosecond counts.
InstantAt(i) == i * 125000000 + (IF i % 3 = 1 THEN 1 ELSE 0)

Instants == {InstantAt(i) : i \in 0..MaxTick}

\* relative_speed values: 0.0, 0.5, 1.0 and 2.0 (all exact in an f64).
Speeds == {F64(0, 1), F64(1, 2), F64(1, 1), F64(2, 1)}

\* Durations handed to the public advance_by.
AdvanceDurations == {0, DEFAULT_MAX_DELTA + 1}

(***************************************************************************)
(* Time<T>                                                                 *)
(***************************************************************************)
\* impl Default for Virtual
VirtualDefault ==
    [max_delta |-> DEFAULT_MAX_DELTA,
     paused |-> FALSE,
     relative_speed |-> F64_ONE,
     effective_speed |-> F64_ONE]

\* impl Default for Real (startup = Instant::now(), taken as instant 0)
RealDefault ==
    [startup |-> 0, first_update |-> <<>>, last_update |-> <<>>]

\* Time::new_with(context): the context plus Time::default() for the rest.
new_with(context) ==
    [context |-> context,
     wrap_period |-> DEFAULT_WRAP_PERIOD,
     delta |-> 0,
     delta_seconds |-> F64_ZERO]

\* as_generic building the generic clock from Time::default() alone.
as_generic_Default(t) ==
    [context |-> <<>>,
     wrap_period |-> t.wrap_period,
     delta |-> 0,
     delta_seconds |-> F64_ZERO]

\* Time::as_generic
as_generic(t) ==
    [context |-> <<>>,
     wrap_period |-> t.wrap_period,
     delta |-> t.delta,
     delta_seconds |-> t.delta_seconds]

\* advance_by that forgets to refresh the cached seconds.
advance_by_StaleSeconds(t, delta) ==
    [t EXCEPT !.delta = delta]

\* advance_by adding the new delta to the one already stored.
advance_by_Accumulating(t, delta) ==
    [t EXCEPT !.delta = t.delta + delta,
              !.delta_seconds = as_secs_f64(t.delta + delta)]

\* Time::advance_by
advance_by(t, delta) ==
    [t EXCEPT !.delta = delta, !.delta_seconds = as_secs_f64(delta)]

\* The clamp left out.
ClampedDelta_NoClamp(raw_delta, max_delta) == raw_delta

\* The clamp with its comparison turned around.
ClampedDelta_Flipped(raw_delta, max_delta) ==
    IF raw_delta < max_delta THEN max_delta ELSE raw_delta

\* The clamp of advance_with_raw_delta.
ClampedDelta(raw_delta, max_delta) ==
    IF raw_delta > max_delta THEN max_delta ELSE raw_delta

\* The effective speed computed without looking at the paused flag.
EffectiveSpeed_IgnorePause(context) == context.relative_speed

\* The effective speed of advance_with_raw_delta.
EffectiveSpeed(context) ==
    IF context.paused THEN F64_ZERO ELSE context.relative_speed

\* The deltas advance_with_raw_delta may store for a clamped delta.
ScaledDeltas(clamped_delta, effective_speed) ==
    IF effective_speed # F64_ONE
    THEN mul_f64(clamped_delta, effective_speed)
    ELSE {clamped_delta}

\* advance_with_raw_delta without the store to context.effective_speed.
advance_with_raw_delta_NoStore(virt, raw_delta) ==
    LET max_delta == virt.context.max_delta
        clamped_delta == ClampedDelta(raw_delta, max_delta)
        effective_speed == EffectiveSpeed(virt.context)
    IN  {advance_by(virt, delta) :
            delta \in ScaledDeltas(clamped_delta, effective_speed)}

\* Time<Virtual>::advance_with_raw_delta: the set of resulting clocks.
advance_with_raw_delta(virt, raw_delta) ==
    LET max_delta == virt.context.max_delta
        clamped_delta == ClampedDelta(raw_delta, max_delta)
        effective_speed == EffectiveSpeed(virt.context)
    IN  {advance_by([virt EXCEPT !.context.effective_speed = effective_speed],
                    delta) :
            delta \in ScaledDeltas(clamped_delta, effective_speed)}

\* update_with_instant that never moves last_update after the first tick.
update_with_instant_KeepLast(real, instant) ==
    IF real.context.last_update = <<>>
    THEN [real EXCEPT !.context.first_update = <<instant>>,
                      !.context.last_update = <<instant>>]
    ELSE advance_by(real, InstantSub(instant, real.context.last_update[1]))

\* Time<Real>::update_with_instant
update_with_instant(real, instant) ==
    IF real.context.last_update = <<>>
    THEN [real EXCEPT !.context.first_update = <<instant>>,
                      !.context.last_update = <<instant>>]
    ELSE LET delta == InstantSub(instant, real.context.last_update[1])
         IN  [advance_by(real, delta) EXCEPT
                 !.context.last_update = <<instant>>]

(***************************************************************************)
(* The input latch (Input and recieve_inputs).                             *)
(***************************************************************************)
\* Scan codes pushed by the event loop.
Codes == {0, 1}

\* The MouseButton values pushed by the event loop.
Buttons == {"Left", "Right"}

\* Cursor coordinates pushed by the event loop.
Coords == {0, 1}

\* Vec2::new(x, y)
Vec2(x, y) == <<x, y>>

\* Number of events waiting in the queues.
Pending ==
    Len(key_down_queue) + Len(key_up_queue) + Len(mouse_pos_queue)
        + Len(mouse_down_queue) + Len(mouse_up_queue)

\* The elements of a Vec or queue.
Elems(v) == {v[i] : i \in 1..Len(v)}

\* Vec::retain(|x| *x != k)
Retain(v, k) == SelectSeq(v, LAMBDA x : x # k)

\* Vec::retain with the predicate turned around.
Retain_Inverted(v, k) == SelectSeq(v, LAMBDA x : x = k)

\* The key-down loop pushing to key_press without the membership scan.
RECURSIVE KeyDownLoop_NoScan(_, _, _)
KeyDownLoop_NoScan(queue, down, press) ==
    IF queue = <<>>
    THEN [down |-> down, press |-> press]
    ELSE LET k == Head(queue)
         IN  KeyDownLoop_NoScan(Tail(queue), Append(down, k),
                                Append(press, k))

\* The key-down loop reporting in key_down only the codes not yet held.
RECURSIVE KeyDownLoop_SkipHeld(_, _, _)
KeyDownLoop_SkipHeld(queue, down, press) ==
    IF queue = <<>>
    THEN [down |-> down, press |-> press]
    ELSE LET k == Head(queue)
             is_key_already_pressed ==
                 \E i \in 1..Len(press) : press[i] = k
         IN  IF ~is_key_already_pressed
             THEN KeyDownLoop_SkipHeld(Tail(queue), Append(down, k),
                                       Append(press, k))
             ELSE KeyDownLoop_SkipHeld(Tail(queue), down, press)

\* The key-down loop with the test of is_key_already_pressed turned around.
RECURSIVE KeyDownLoop_InvertedScan(_, _, _)
KeyDownLoop_InvertedScan(queue, down, press) ==
    IF queue = <<>>
    THEN [down |-> down, press |-> press]
    ELSE LET k == Head(queue)
             is_key_already_pressed ==
                 \E i \in 1..Len(press) : press[i] = k
         IN  KeyDownLoop_InvertedScan(Tail(queue), Append(down, k),
                                      IF is_key_already_pressed
                                      THEN Append(press, k)
                                      ELSE press)

\* The key-down loop that reports the codes but never marks them held.
RECURSIVE KeyDownLoop_NoPress(_, _, _)
KeyDownLoop_NoPress(queue, down, press) ==
    IF queue = <<>>
    THEN [down |-> down, press |-> press]
    ELSE KeyDownLoop_NoPress(Tail(queue), Append(down, Head(queue)), press)

\* The loop draining key_down_queue into key_down and key_press.
RECURSIVE KeyDownLoop(_, _, _)
KeyDownLoop(queue, down, press) ==
    IF queue = <<>>
    THEN [down |-> down, press |-> press]
    ELSE LET k == Head(queue)
             is_key_already_pressed ==
                 \E i \in 1..Len(press) : press[i] = k
         IN  KeyDownLoop(Tail(queue), Append(down, k),
                         IF ~is_key_already_pressed
                         THEN Append(press, k)
                         ELSE press)

\* The key-up loop with an inverted retain.
RECURSIVE KeyUpLoop_Inverted(_, _, _)
KeyUpLoop_Inverted(queue, up, press) ==
    IF queue = <<>>
    THEN [up |-> up, press |-> press]
    ELSE LET k == Head(queue)
         IN  KeyUpLoop_Inverted(Tail(queue), Append(up, k),
                                Retain_Inverted(press, k))

\* The key-up loop without the retain.
RECURSIVE KeyUpLoop_NoRetain(_, _, _)
KeyUpLoop_NoRetain(queue, up, press) ==
    IF queue = <<>>
    THEN [up |-> up, press |-> press]
    ELSE KeyUpLoop_NoRetain(Tail(queue), Append(up, Head(queue)), press)

\* The key-up loop reporting in key_up only the codes that were held.
RECURSIVE KeyUpLoop_SkipUnheld(_, _, _)
KeyUpLoop_SkipUnheld(queue, up, press) ==
    IF queue = <<>>
    THEN [up |-> up, press |-> press]
    ELSE LET k == Head(queue)
         IN  KeyUpLoop_SkipUnheld(Tail(queue),
                                  IF k \in Elems(press)
                                  THEN Append(up, k)
                                  ELSE up,
                                  Retain(press, k))

\* The loop draining key_up_queue into key_up and out of key_press.
RECURSIVE KeyUpLoop(_, _, _)
KeyUpLoop(queue, up, press) ==
    IF queue = <<>>
    THEN [up |-> up, press |-> press]
    ELSE LET k == Head(queue)
         IN  KeyUpLoop(Tail(queue), Append(up, k), Retain(press, k))

\* The cursor loop keeping the first position popped.
MousePosLoop_First(queue, pos) ==
    IF queue = <<>> THEN pos ELSE Head(queue)

\* The loop draining mouse_pos_queue: the last position popped stays.
RECURSIVE MousePosLoop(_, _)
MousePosLoop(queue, pos) ==
    IF queue = <<>> THEN pos ELSE MousePosLoop(Tail(queue), Head(queue))

\* The loop draining mouse_down_queue into mouse_down and mouse_press.
RECURSIVE MouseDownLoop(_, _, _)
MouseDownLoop(queue, down, press) ==
    IF queue = <<>>
    THEN [down |-> down, press |-> press]
    ELSE LET b == Head(queue)
             is_button_already_pressed ==
                 \E i \in 1..Len(press) : press[i] = b
         IN  MouseDownLoop(Tail(queue), Append(down, b),
                           IF ~is_button_already_pressed
                           THEN Append(press, b)
                           ELSE press)

\* The loop draining mouse_up_queue into mouse_up and out of mouse_press.
RECURSIVE MouseUpLoop(_, _, _)
MouseUpLoop(queue, up, press) ==
    IF queue = <<>>
    THEN [up |-> up, press |-> press]
    ELSE LET b == Head(queue)
         IN  MouseUpLoop(Tail(queue), Append(up, b), Retain(press, b))

\* The key part of the latch with the up queue drained before the down queue.
LatchKeys_UpsFirst(down, up, press, down_queue, up_queue) ==
    LET u == KeyUpLoop(up_queue, <<>>, press)
        d == KeyDownLoop(down_queue, <<>>, u.press)
    IN  [down |-> d.down, up |-> u.up, press |-> d.press]

\* The key part of the latch without the two clear() calls.
LatchKeys_NoClear(down, up, press, down_queue, up_queue) ==
    LET d == KeyDownLoop(down_queue, down, press)
        u == KeyUpLoop(up_queue, up, d.press)
    IN  [down |-> d.down, up |-> u.up, press |-> u.press]

\* The key part of recieve_inputs: key_down and key_up are cleared, then
\* the down queue is drained, then the up queue.
LatchKeys(down, up, press, down_queue, up_queue) ==
    LET d == KeyDownLoop(down_queue, <<>>, press)
        u == KeyUpLoop(up_queue, <<>>, d.press)
    IN  [down |-> d.down, up |-> u.up, press |-> u.press]

\* The button part of the latch with the up queue drained first.
LatchButtons_UpsFirst(down, up, press, down_queue, up_queue) ==
    LET u == MouseUpLoop(up_queue, <<>>, press)
        d == MouseDownLoop(down_queue, <<>>, u.press)
    IN  [down |-> d.down, up |-> u.up, press |-> d.press]

\* The mouse-button part of recieve_inputs.
LatchButtons(down, up, press, down_queue, up_queue) ==
    LET d == MouseDownLoop(down_queue, <<>>, press)
        u == MouseUpLoop(up_queue, <<>>, d.press)
    IN  [down |-> d.down, up |-> u.up, press |-> u.press]

\* Input::default()
InputInit ==
    /\ key_down_queue = <<>>
    /\ key_up_queue = <<>>
    /\ mouse_pos_queue = <<>>
    /\ mouse_down_queue = <<>>
    /\ mouse_up_queue = <<>>
    /\ key_down = <<>>
    /\ key_up = <<>>
    /\ key_press = <<>>
    /\ mouse_pos = Vec2(0, 0)
    /\ mouse_down = <<>>
    /\ mouse_up = <<>>
    /\ mouse_press = <<>>

\* set_key_down that also marks the key as held at once.
set_key_down_Eager(key) ==
    /\ Pending < MaxPending
    /\ key_down_queue' = Append(key_down_queue, key)
    /\ key_press' = IF key \in Elems(key_press)
                    THEN key_press
                    ELSE Append(key_press, key)
    /\ UNCHANGED <<key_up_queue, mouse_pos_queue, mouse_down_queue,
                   mouse_up_queue, key_down, key_up,
                   mouse_pos, mouse_down, mouse_up, mouse_press>>
    /\ UNCHANGED <<time_vars, rest_vars>>

\* Input::set_key_down
set_key_down(key) ==
    /\ Pending < MaxPending
    /\ key_down_queue' = Append(key_down_queue, key)
    /\ UNCHANGED <<key_up_queue, mouse_pos_queue, mouse_down_queue,
                   mouse_up_queue, key_down, key_up, key_press,
                   mouse_pos, mouse_down, mouse_up, mouse_press>>
    /\ UNCHANGED <<time_vars, rest_vars>>

\* Input::set_key_up
set_key_up(key) ==
    /\ Pending < MaxPending
    /\ key_up_queue' = Append(key_up_queue, key)
    /\ UNCHANGED <<key_down_queue, mouse_pos_queue, mouse_down_queue,
                   mouse_up_queue, key_down, key_up, key_press,
                   mouse_pos, mouse_down, mouse_up, mouse_press>>
    /\ UNCHANGED <<time_vars, rest_vars>>

\* Input::set_mouse_pos
set_mouse_pos(x, y) ==
    /\ Pending < MaxPending
    /\ mouse_pos_queue' = Append(mouse_pos_queue, Vec2(x, y))
    /\ UNCHANGED <<key_down_queue, key_up_queue, mouse_down_queue,
                   mouse_up_queue, key_down, key_up, key_press,
                   mouse_pos, mouse_down, mouse_up, mouse_press>>
    /\ UNCHANGED <<time_vars, rest_vars>>

\* Input::set_mouse_button_down
set_mouse_button_down(btn) ==
    /\ Pending < MaxPending
    /\ mouse_down_queue' = Append(mouse_down_queue, btn)
    /\ UNCHANGED <<key_down_queue, key_up_queue, mouse_pos_queue,
                   mouse_up_queue, key_down, key_up, key_press,
                   mouse_pos, mouse_down, mouse_up, mouse_press>>
    /\ UNCHANGED <<time_vars, rest_vars>>

\* Input::set_mouse_button_up
set_mouse_button_up(btn) ==
    /\ Pending < MaxPending
    /\ mouse_up_queue' = Append(mouse_up_queue, btn)
    /\ UNCHANGED <<key_down_queue, key_up_queue, mouse_pos_queue,
                   mouse_down_queue, key_down, key_up, key_press,
                   mouse_pos, mouse_down, mouse_up, mouse_press>>
    /\ UNCHANGED <<time_vars, rest_vars>>

\* What a run of recieve_inputs with no push in between its steps does to
\* the Input.
InputLatched ==
    LET keys == LatchKeys(key_down, key_up, key_press,
                          key_down_queue, key_up_queue)
        buttons == LatchButtons(mouse_down, mouse_up, mouse_press,
                                mouse_down_queue, mouse_up_queue)
    IN  /\ key_down' = keys.down
        /\ key_up' = keys.up
        /\ key_press' = keys.press
        /\ mouse_pos' = MousePosLoop(mouse_pos_queue, mouse_pos)
        /\ mouse_down' = buttons.down
        /\ mouse_up' = buttons.up
        /\ mouse_press' = buttons.press
        /\ key_down_queue' = <<>>
        /\ key_up_queue' = <<>>
        /\ mouse_pos_queue' = <<>>
        /\ mouse_down_queue' = <<>>
        /\ mouse_up_queue' = <<>>

\* recieve_inputs, run with no push in between its steps
recieve_inputs ==
    /\ InputLatched
    /\ UNCHANGED <<time_vars, rest_vars>>

InputNext ==
    \/ \E key \in Codes :
          set_key_down(key) /\ UNCHANGED <<hist_vars, latch_vars>>
    \/ \E key \in Codes :
          set_key_up(key) /\ UNCHANGED <<hist_vars, latch_vars>>
    \/ \E x \in Coords, y \in Coords :
          set_mouse_pos(x, y) /\ UNCHANGED <<hist_vars, latch_vars>>
    \/ \E btn \in Buttons :
          set_mouse_button_down(btn) /\ UNCHANGED <<hist_vars, latch_vars>>
    \/ \E btn \in Buttons :
          set_mouse_button_up(btn) /\ UNCHANGED <<hist_vars, latch_vars>>
    \/ recieve_inputs /\ UNCHANGED <<hist_vars, latch_vars>>

(***************************************************************************)
(* Key queries, and the keys with their push history.                      *)
(***************************************************************************)
\* The KeyCode values asked for by the queries.
KeyCodes == {"Escape", "KeyA"}

\* KeyCode::from_scancode: scan code 1 is Escape, scan code 0 has no key.
from_scancode(scancode) ==
    IF scancode = 1 THEN <<"Code", "Escape">> ELSE <<"Unidentified">>

\* get_keycode_from_physical_key: the KeyCode, or "panic".
get_keycode_from_physical_key(pk) ==
    IF pk[1] = "Code" THEN pk[2] ELSE "panic"

\* The scan of is_key_down / is_key_up / is_key_pressed over their Vec:
\* "true", "false", or "panic" when a code without a key comes first.
RECURSIVE KeyScan(_, _)
KeyScan(v, key) ==
    IF v = <<>>
    THEN "false"
    ELSE LET kc == get_keycode_from_physical_key(from_scancode(Head(v)))
         IN  IF kc = "panic" THEN "panic"
             ELSE IF kc = key THEN "true"
             ELSE KeyScan(Tail(v), key)

\* Input::is_key_down
is_key_down(key) == KeyScan(key_down, key)

\* Input::is_key_up
is_key_up(key) == KeyScan(key_up, key)

\* Input::is_key_pressed
is_key_pressed(key) == KeyScan(key_press, key)

\* No push yet, no panic yet.
HistInit ==
    /\ last_push = [k \in Codes |-> "none"]
    /\ halted = FALSE

\* set_key_down from the event loop; the push is remembered as the latest
\* one for the key.
KeyDownPushed(key) ==
    /\ ~halted
    /\ set_key_down(key)
    /\ last_push' = [last_push EXCEPT ![key] = "down"]
    /\ UNCHANGED <<halted, latch_vars>>

\* set_key_up from the event loop, remembered likewise.
KeyUpPushed(key) ==
    /\ ~halted
    /\ set_key_up(key)
    /\ last_push' = [last_push EXCEPT ![key] = "up"]
    /\ UNCHANGED <<halted, latch_vars>>

\* The latch of a frame.
KeysLatched ==
    /\ ~halted
    /\ recieve_inputs
    /\ UNCHANGED <<hist_vars, latch_vars>>

\* A game-logic system asks one of the three key queries; a panic
\* terminates the process.
KeyQueried(key) ==
    /\ ~halted
    /\ \E answer \in {is_key_down(key), is_key_up(key), is_key_pressed(key)} :
          halted' = (answer = "panic")
    /\ UNCHANGED <<time_vars, input_vars, last_push, latch_vars, rest_vars>>

KeyNext ==
    \/ \E key \in Codes : KeyDownPushed(key)
    \/ \E key \in Codes : KeyUpPushed(key)
    \/ KeysLatched
    \/ \E key \in KeyCodes : KeyQueried(key)

(***************************************************************************)
(* Clock operations.                                                       *)
(***************************************************************************)
\* BellaWorld::new inserts the three clocks.
TimeInit ==
    /\ real_time = new_with(RealDefault)
    /\ virtual_time = new_with(VirtualDefault)
    /\ time = new_with(<<>>)

\* update_time(current, virt, real)
update_time ==
    /\ virtual_time' \in advance_with_raw_delta(virtual_time, real_time.delta)
    /\ time' = as_generic(virtual_time')
    /\ UNCHANGED real_time
    /\ UNCHANGED <<input_vars, hist_vars, latch_vars, rest_vars>>

\* time_system, with Instant::now() = instant
time_system(instant) ==
    /\ real_time' = update_with_instant(real_time, instant)
    /\ virtual_time' \in advance_with_raw_delta(virtual_time, real_time'.delta)
    /\ time' = as_generic(virtual_time')
    /\ UNCHANGED <<input_vars, hist_vars, latch_vars, rest_vars>>

\* real_time.update_with_instant(instant) called on its own
RealUpdate(instant) ==
    /\ real_time' = update_with_instant(real_time, instant)
    /\ UNCHANGED <<virtual_time, time>>
    /\ UNCHANGED <<input_vars, hist_vars, latch_vars, rest_vars>>

\* The public advance_by on each of the three clocks.
AdvanceReal(d) ==
    /\ real_time' = advance_by(real_time, d)
    /\ UNCHANGED <<virtual_time, time>>
    /\ UNCHANGED <<input_vars, hist_vars, latch_vars, rest_vars>>

AdvanceVirtual(d) ==
    /\ virtual_time' = advance_by(virtual_time, d)
    /\ UNCHANGED <<real_time, time>>
    /\ UNCHANGED <<input_vars, hist_vars, latch_vars, rest_vars>>

AdvanceGeneric(d) ==
    /\ time' = advance_by(time, d)
    /\ UNCHANGED <<real_time, virtual_time>>
    /\ UNCHANGED <<input_vars, hist_vars, latch_vars, rest_vars>>

\* set_paused(bool): writes the paused flag.
set_paused(b) ==
    /\ virtual_time' = [virtual_time EXCEPT !.context.paused = b]
    /\ UNCHANGED <<real_time, time>>
    /\ UNCHANGED <<input_vars, hist_vars, latch_vars, rest_vars>>

\* set_relative_speed(f64): writes the speed multiplier, unvalidated.
set_relative_speed(s) ==
    /\ virtual_time' = [virtual_time EXCEPT !.context.relative_speed = s]
    /\ UNCHANGED <<real_time, time>>
    /\ UNCHANGED <<input_vars, hist_vars, latch_vars, rest_vars>>

TimeNext ==
    \/ \E instant \in Instants : time_system(instant)
    \/ \E instant \in Instants : RealUpdate(instant)
    \/ update_time
    \/ \E d \in AdvanceDurations : AdvanceReal(d)
    \/ \E d \in AdvanceDurations : AdvanceVirtual(d)
    \/ \E d \in AdvanceDurations : AdvanceGeneric(d)
    \/ \E b \in BOOLEAN : set_paused(b)
    \/ \E s \in Speeds : set_relative_speed(s)

(***************************************************************************)
(* recieve_inputs step by step, with producers pushing in between.         *)
(***************************************************************************)
\* recieve_inputs is not running and no event was pushed.
LatchInit ==
    /\ pc = "idle"
    /\ pushes = 0

\* The loop test taken the wrong way round.
AfterTest_Flipped(queue, pop_pc, next_pc) ==
    IF queue = <<>> THEN pop_pc ELSE next_pc

\* The loop test that goes on to the pop whatever the queue holds.
AfterTest_Wait(queue, pop_pc, next_pc) == pop_pc

\* while !queue.is_empty(): on to the pop, or on to the next loop.
AfterTest(queue, pop_pc, next_pc) ==
    IF queue # <<>> THEN pop_pc ELSE next_pc

\* A producer pushes an event while the consumer is anywhere.
Pushed(push) ==
    /\ ~halted
    /\ pushes < MaxPushes
    /\ push
    /\ pushes' = pushes + 1
    /\ UNCHANGED <<halted, pc>>

ProducerKeyDown(key) ==
    /\ Pushed(set_key_down(key))
    /\ last_push' = [last_push EXCEPT ![key] = "down"]

ProducerKeyUp(key) ==
    /\ Pushed(set_key_up(key))
    /\ last_push' = [last_push EXCEPT ![key] = "up"]

ProducerMousePos(x, y) ==
    /\ Pushed(set_mouse_pos(x, y))
    /\ UNCHANGED last_push

ProducerMouseDown(btn) ==
    /\ Pushed(set_mouse_button_down(btn))
    /\ UNCHANGED last_push

ProducerMouseUp(btn) ==
    /\ Pushed(set_mouse_button_up(btn))
    /\ UNCHANGED last_push

\* What a step of recieve_inputs leaves alone besides the Input.
LatchFrame == UNCHANGED <<time_vars, last_push, pushes, rest_vars>>

\* recieve_inputs starts: the four clear() calls.
LatchBegin ==
    /\ ~halted
    /\ pc = "idle"
    /\ key_down' = <<>>
    /\ key_up' = <<>>
    /\ mouse_down' = <<>>
    /\ mouse_up' = <<>>
    /\ pc' = "key_down"
    /\ UNCHANGED <<key_down_queue, key_up_queue, mouse_pos_queue,
                   mouse_down_queue, mouse_up_queue,
                   key_press, mouse_pos, mouse_press, halted>>
    /\ LatchFrame

\* One is_empty() test of a while loop: at, the loop; queue, its queue;
\* next_pc, where recieve_inputs goes on when the queue is seen empty.
LoopTest(at, queue, next_pc) ==
    /\ ~halted
    /\ pc = at
    /\ pc' = AfterTest(queue, at \o "_pop", next_pc)
    /\ UNCHANGED <<input_vars, halted>>
    /\ LatchFrame

\* pop().unwrap() on an empty queue: the panic ends the process.
PopPanics ==
    /\ halted' = TRUE
    /\ UNCHANGED <<input_vars, pc>>
    /\ LatchFrame

\* The body of the key_down_queue loop.
KeyDownPop ==
    /\ ~halted
    /\ pc = "key_down_pop"
    /\ IF key_down_queue = <<>>
       THEN PopPanics
       ELSE LET r == KeyDownLoop(<<Head(key_down_queue)>>,
                                 key_down, key_press)
            IN  /\ key_down_queue' = Tail(key_down_queue)
                /\ key_down' = r.down
                /\ key_press' = r.press
                /\ pc' = "key_down"
                /\ UNCHANGED <<key_up_queue, mouse_pos_queue,
                               mouse_down_queue, mouse_up_queue, key_up,
                               mouse_pos, mouse_down, mouse_up, mouse_press,
                               halted>>
                /\ LatchFrame

\* The body of the key_up_queue loop.
KeyUpPop ==
    /\ ~halted
    /\ pc = "key_up_pop"
    /\ IF key_up_queue = <<>>
       THEN PopPanics
       ELSE LET r == KeyUpLoop(<<Head(key_up_queue)>>, key_up, key_press)
            IN  /\ key_up_queue' = Tail(key_up_queue)
                /\ key_up' = r.up
                /\ key_press' = r.press
                /\ pc' = "key_up"
                /\ UNCHANGED <<key_down_queue, mouse_pos_queue,
                               mouse_down_queue, mouse_up_queue, key_down,
                               mouse_pos, mouse_down, mouse_up, mouse_press,
                               halted>>
                /\ LatchFrame

\* The body of the mouse_pos_queue loop.
MousePosPop ==
    /\ ~halted
    /\ pc = "mouse_pos_pop"
    /\ IF mouse_pos_queue = <<>>
       THEN PopPanics
       ELSE /\ mouse_pos_queue' = Tail(mouse_pos_queue)
            /\ mouse_pos' = MousePosLoop(<<Head(mouse_pos_queue)>>, mouse_pos)
            /\ pc' = "mouse_pos"
            /\ UNCHANGED <<key_down_queue, key_up_queue,
                           mouse_down_queue, mouse_up_queue,
                           key_down, key_up, key_press,
                           mouse_down, mouse_up, mouse_press, halted>>
            /\ LatchFrame

\* The body of the mouse_down_queue loop.
MouseDownPop ==
    /\ ~halted
    /\ pc = "mouse_down_pop"
    /\ IF mouse_down_queue = <<>>
       THEN PopPanics
       ELSE LET r == MouseDownLoop(<<Head(mouse_down_queue)>>,
                                   mouse_down, mouse_press)
            IN  /\ mouse_down_queue' = Tail(mouse_down_queue)
                /\ mouse_down' = r.down
                /\ mouse_press' = r.press
                /\ pc' = "mouse_down"
                /\ UNCHANGED <<key_down_queue, key_up_queue, mouse_pos_queue,
                               mouse_up_queue, key_down, key_up, key_press,
                               mouse_pos, mouse_up, halted>>
                /\ LatchFrame

\* The body of the mouse_up_queue loop.
MouseUpPop ==
    /\ ~halted
    /\ pc = "mouse_up_pop"
    /\ IF mouse_up_queue = <<>>
       THEN PopPanics
       ELSE LET r == MouseUpLoop(<<Head(mouse_up_queue)>>,
                                 mouse_up, mouse_press)
            IN  /\ mouse_up_queue' = Tail(mouse_up_queue)
                /\ mouse_up' = r.up
                /\ mouse_press' = r.press
                /\ pc' = "mouse_up"
                /\ UNCHANGED <<key_down_queue, key_up_queue, mouse_pos_queue,
                               mouse_down_queue, key_down, key_up, key_press,
                               mouse_pos, mouse_down, halted>>
                /\ LatchFrame

\* The five loop tests, in the order of the source.
KeyDownTest == LoopTest("key_down", key_down_queue, "key_up")

KeyUpTest == LoopTest("key_up", key_up_queue, "mouse_pos")

MousePosTest == LoopTest("mouse_pos", mouse_pos_queue, "mouse_down")

MouseDownTest == LoopTest("mouse_down", mouse_down_queue, "mouse_up")

MouseUpTest == LoopTest("mouse_up", mouse_up_queue, "idle")

\* A step of a running recieve_inputs.
LatchStep ==
    \/ KeyDownTest
    \/ KeyDownPop
    \/ KeyUpTest
    \/ KeyUpPop
    \/ MousePosTest
    \/ MousePosPop
    \/ MouseDownTest
    \/ MouseDownPop
    \/ MouseUpTest
    \/ MouseUpPop

ConcNext ==
    \/ \E key \in Codes : ProducerKeyDown(key)
    \/ \E key \in Codes : ProducerKeyUp(key)
    \/ \E x \in Coords, y \in Coords : ProducerMousePos(x, y)
    \/ \E btn \in Buttons : ProducerMouseDown(btn)
    \/ \E btn \in Buttons : ProducerMouseUp(btn)
    \/ LatchBegin
    \/ KeyDownTest
    \/ KeyDownPop
    \/ KeyUpTest
    \/ KeyUpPop
    \/ MousePosTest
    \/ MousePosPop
    \/ MouseDownTest
    \/ MouseDownPop
    \/ MouseUpTest
    \/ MouseUpPop

(***************************************************************************)
(* The scene registry (Instance).                                          *)
(***************************************************************************)
\* Scene names used by the systems.
Names == {"a", "b"}

\* Scene::new(): no draw command.
SceneNew == <<>>

\* HashMap::insert(key, value)
MapInsert(map, key, value) ==
    [x \in DOMAIN map \cup {key} |-> IF x = key THEN value ELSE map[x]]

\* HashMap::get / get_mut: an Option holding the key found.
MapGet(map, key) == IF key \in DOMAIN map THEN <<key>> ELSE <<>>

\* Instance::default()
SceneInit ==
    /\ max_scene_id = 0
    /\ scenes = <<>>
    /\ scene_names = [n \in {} |-> 0]
    /\ scene_result = <<>>

\* new_scene that keeps the id a name already has.
new_scene_KeepFirst(name) ==
    /\ max_scene_id < MaxScenes
    /\ max_scene_id' = max_scene_id + 1
    /\ scenes' = MapInsert(scenes, max_scene_id', SceneNew)
    /\ scene_names' = IF name \in DOMAIN scene_names
                      THEN scene_names
                      ELSE MapInsert(scene_names, name, max_scene_id')
    /\ scene_result' = MapGet(scenes', max_scene_id')
    /\ UNCHANGED <<time_vars, input_vars, hist_vars, latch_vars,
                   app_vars, asset_vars>>

\* Instance::new_scene; returns the new scene.
new_scene(name) ==
    /\ max_scene_id < MaxScenes
    /\ max_scene_id' = max_scene_id + 1
    /\ scenes' = MapInsert(scenes, max_scene_id', SceneNew)
    /\ scene_names' = MapInsert(scene_names, name, max_scene_id')
    /\ scene_result' = MapGet(scenes', max_scene_id')
    /\ UNCHANGED <<time_vars, input_vars, hist_vars, latch_vars,
                   app_vars, asset_vars>>

\* The scene get_scene returns: the id of the name, looked up in scenes.
GetSceneResult(name) ==
    LET ptr == IF name \in DOMAIN scene_names
               THEN <<scene_names[name]>>
               ELSE <<>>
    IN  IF ptr # <<>> THEN MapGet(scenes, ptr[1]) ELSE <<>>

\* get_scene registering the name when it is unknown.
get_scene_OrCreate(name) ==
    IF name \in DOMAIN scene_names
    THEN /\ scene_result' = GetSceneResult(name)
         /\ UNCHANGED <<max_scene_id, scenes, scene_names>>
         /\ UNCHANGED <<time_vars, input_vars, hist_vars, latch_vars,
                   app_vars, asset_vars>>
    ELSE new_scene(name)

\* Instance::get_scene
get_scene(name) ==
    /\ scene_result' = GetSceneResult(name)
    /\ UNCHANGED <<max_scene_id, scenes, scene_names>>
    /\ UNCHANGED <<time_vars, input_vars, hist_vars, latch_vars,
                   app_vars, asset_vars>>

\* A draw system encodes a command into the scene it was handed.
SceneDraw ==
    /\ scene_result # <<>>
    /\ Len(scenes[scene_result[1]]) < MaxCommands
    /\ scenes' = [scenes EXCEPT ![scene_result[1]] = Append(@, "fill")]
    /\ UNCHANGED <<max_scene_id, scene_names, scene_result>>
    /\ UNCHANGED <<time_vars, input_vars, hist_vars, latch_vars,
                   app_vars, asset_vars>>

\* bella_instance_reset: Scene::reset on every scene.
bella_instance_reset ==
    /\ scenes' = [id \in DOMAIN scenes |-> SceneNew]
    /\ UNCHANGED <<max_scene_id, scene_names, scene_result>>
    /\ UNCHANGED <<time_vars, input_vars, hist_vars, latch_vars,
                   app_vars, asset_vars>>

SceneNext ==
    \/ \E name \in Names : new_scene(name)
    \/ \E name \in Names : get_scene(name)
    \/ SceneDraw
    \/ bella_instance_reset

(***************************************************************************)
(* The asset server (AssetServer).                                         *)
(***************************************************************************)
\* The asset types T of load_file::<T>.
Formats == {"TextFile", "Font"}

\* The urls the systems load.
Urls == {"a", "b"}

\* What a file can hold when it is read.
Contents == {1, 2}

\* The outcomes of T::load_file(url): Err(e) is <<>>, Ok(f) is <<f>>.
Reads == {<<>>} \cup {<<f>> : f \in Contents}

\* HashMap::<String, T>::new()
AssetListNew == [u \in {} |-> 0]

\* AssetServer::default(): an empty AnyMap; no call was made yet.
AssetInit ==
    /\ assets = [t \in {} |-> AssetListNew]
    /\ load_result =
          [format |-> "", url |-> "", read |-> <<>>, returned |-> <<>>]

\* AssetServer::load_file::<T>(url), where reading the file gives read.
\* The list of T is inserted when missing.  The argument of or_insert is
\* evaluated before or_insert looks at the entry: the file is read on every
\* call, and an Err returns None from load_file whether or not the url is
\* in the list.  Otherwise the entry keeps its value when it is occupied and
\* takes the value read when it is vacant.
load_file(T, url, read) ==
    LET with_list == IF T \in DOMAIN assets
                     THEN assets
                     ELSE MapInsert(assets, T, AssetListNew)
        asset_list == with_list[T]
        stored == IF url \in DOMAIN asset_list
                  THEN asset_list[url]
                  ELSE read[1]
    IN  /\ IF read = <<>>
           THEN /\ assets' = with_list
                /\ load_result' = [format |-> T, url |-> url,
                                   read |-> read, returned |-> <<>>]
           ELSE /\ assets' =
                      MapInsert(with_list, T,
                                MapInsert(asset_list, url, stored))
                /\ load_result' = [format |-> T, url |-> url,
                                   read |-> read, returned |-> <<stored>>]
        /\ UNCHANGED <<time_vars, input_vars, hist_vars, latch_vars,
                       scene_vars, app_vars>>

AssetNext ==
    \E T \in Formats, url \in Urls, read \in Reads : load_file(T, url, read)

(***************************************************************************)
(* The App: worlds, render state and the RedrawRequested frame.            *)
(***************************************************************************)
\* The sizes carried by Resized events.
Sizes == {<<0, 0>>, <<0, 480>>, <<640, 480>>}

\* Instance::default() of a world.
InstanceNew ==
    [max_scene_id |-> 0, scenes |-> <<>>, scene_names |-> [n \in {} |-> 0]]

\* Input::default() of a world: its keyboard part (window_event pushes no
\* mouse event, the mouse fields of a world's Input stay as created).
WorldInputNew ==
    [key_down_queue |-> <<>>, key_up_queue |-> <<>>,
     key_down |-> <<>>, key_up |-> <<>>, key_press |-> <<>>]

\* BellaWorld::new that leaves recieve_inputs out of sch_on_pre_update.
BellaWorldNew_NoLatch ==
    [on_start |-> TRUE,
     sch_on_start |-> {},
     sch_on_first |-> {"time_system", "bella_instance_reset"},
     sch_on_draw |-> {},
     sch_on_pre_update |-> {},
     sch_on_update |-> {},
     sch_on_last |-> {},
     root |-> InstanceNew,
     input |-> WorldInputNew]

\* BellaWorld::new: the systems of each schedule, the on_start flag, and of
\* the resources of the world its Instance and its Input.
BellaWorldNew ==
    [on_start |-> TRUE,
     sch_on_start |-> {},
     sch_on_first |-> {"time_system", "bella_instance_reset"},
     sch_on_draw |-> {},
     sch_on_pre_update |-> {"recieve_inputs"},
     sch_on_update |-> {},
     sch_on_last |-> {},
     root |-> InstanceNew,
     input |-> WorldInputNew]

\* One entry of frame_log: world i ran a schedule, or was rendered.
Ran(i, what) == [world |-> i, ran |-> what]

\* The loop body with sch_on_pre_update run after sch_on_update.
WorldFrame_LatchLate(i, w) ==
    (IF w.on_start THEN <<Ran(i, "sch_on_start")>> ELSE <<>>)
        \o <<Ran(i, "sch_on_first"), Ran(i, "sch_on_draw"), Ran(i, "render"),
             Ran(i, "sch_on_update"), Ran(i, "sch_on_pre_update"),
             Ran(i, "sch_on_last")>>

\* The loop body with the on_start test left out.
WorldFrame_AlwaysStart(i, w) ==
    <<Ran(i, "sch_on_start"),
      Ran(i, "sch_on_first"), Ran(i, "sch_on_draw"), Ran(i, "render"),
      Ran(i, "sch_on_pre_update"), Ran(i, "sch_on_update"),
      Ran(i, "sch_on_last")>>

\* The body of the loop over the worlds in RedrawRequested: what runs for
\* world i, in order.
WorldFrame(i, w) ==
    (IF w.on_start THEN <<Ran(i, "sch_on_start")>> ELSE <<>>)
        \o <<Ran(i, "sch_on_first"), Ran(i, "sch_on_draw"), Ran(i, "render"),
             Ran(i, "sch_on_pre_update"), Ran(i, "sch_on_update"),
             Ran(i, "sch_on_last")>>

\* The loop over the worlds, from world i on.
RECURSIVE FrameRuns(_, _)
FrameRuns(ws, i) ==
    IF i > Len(ws) THEN <<>> ELSE WorldFrame(i, ws[i]) \o FrameRuns(ws, i + 1)

\* The scene the systems of the application draw into.
UserScene == "a"

\* A draw command: the world whose system encoded it, the schedule that
\* system ran in, and whether it was encoded while the frame being handled
\* ran ("new") or before ("old").
Command(i, schedule) == [world |-> i, sch |-> schedule, age |-> "new"]

\* The same commands, now of an earlier frame.
Aged(scene) == [n \in DOMAIN scene |-> [scene[n] EXCEPT !.age = "old"]]

\* The worlds as a frame finds them: what their scenes hold is of earlier
\* frames.
AgedWorlds(ws) ==
    [i \in DOMAIN ws |->
        [ws[i] EXCEPT !.root.scenes = [id \in DOMAIN @ |-> Aged(@[id])]]]

\* Instance::new_scene on the Instance of a world.
RootNewScene(root, name) ==
    [max_scene_id |-> root.max_scene_id + 1,
     scenes |-> MapInsert(root.scenes, root.max_scene_id + 1, SceneNew),
     scene_names |-> MapInsert(root.scene_names, name, root.max_scene_id + 1)]

\* A system of the application run for world i: it registers its scene if
\* it is not there yet, gets it and encodes one command into it.
UserSystem(i, w, schedule) ==
    LET root == IF UserScene \in DOMAIN w.root.scene_names
                THEN w.root
                ELSE RootNewScene(w.root, UserScene)
        id == root.scene_names[UserScene]
    IN  [w EXCEPT !.root =
            [root EXCEPT !.scenes[id] = Append(@, Command(i, schedule))]]

\* bella_instance_reset that resets no scene.
ResetScenes_Keep(w) == w

\* bella_instance_reset on the Instance of a world.
ResetScenes(w) ==
    [w EXCEPT !.root.scenes = [id \in DOMAIN @ |-> SceneNew]]

\* recieve_inputs on the Input of a world.
LatchWorld(w) ==
    LET keys == LatchKeys(w.input.key_down, w.input.key_up,
                          w.input.key_press,
                          w.input.key_down_queue, w.input.key_up_queue)
    IN  [w EXCEPT !.input =
            [key_down_queue |-> <<>>, key_up_queue |-> <<>>,
             key_down |-> keys.down, key_up |-> keys.up,
             key_press |-> keys.press]]

\* Schedule::run: the systems of the schedule run on the world (no
\* schedule holds two systems that touch the same resource; time_system
\* changes the clocks only).
RunSchedule(i, w, schedule) ==
    LET a == IF "bella_instance_reset" \in w[schedule]
             THEN ResetScenes(w) ELSE w
        b == IF "recieve_inputs" \in w[schedule]
             THEN LatchWorld(a) ELSE a
    IN  IF "user_system" \in w[schedule]
        THEN UserSystem(i, b, schedule) ELSE b

\* The orders in which a HashMap with the keys S can be iterated.
Orders(S) ==
    {p \in [1..Cardinality(S) -> S] :
        \A m, n \in 1..Cardinality(S) : m # n => p[m] # p[n]}

\* for (_id, scene) in &root.scenes { main_scene.append(scene, None) },
\* iterating in the given order.
RECURSIVE AppendScenes(_, _, _)
AppendScenes(main, root_scenes, order) ==
    IF order = <<>> THEN main
    ELSE AppendScenes(main \o root_scenes[Head(order)], root_scenes,
                      Tail(order))

\* The loop body up to the rendering: sch_on_start on the first frame of
\* the world, then sch_on_first and sch_on_draw.
WorldDrawn(i, w) ==
    LET started == IF w.on_start
                   THEN [RunSchedule(i, w, "sch_on_start")
                            EXCEPT !.on_start = FALSE]
                   ELSE w
    IN  RunSchedule(i, RunSchedule(i, started, "sch_on_first"),
                    "sch_on_draw")

\* The loop body after the rendering: sch_on_pre_update, sch_on_update and
\* sch_on_last.
WorldUpdated(i, w) ==
    RunSchedule(i,
        RunSchedule(i, RunSchedule(i, w, "sch_on_pre_update"),
                    "sch_on_update"),
        "sch_on_last")

\* The loop over the worlds from world i on, with main the main scene so
\* far and subs what was handed to render_to_surface so far: the outcomes
\* it can have, one for each order the scenes of the worlds are iterated in.
RECURSIVE FrameLoop(_, _, _, _)
FrameLoop(ws, i, main, subs) ==
    IF i > Len(ws)
    THEN {[worlds |-> ws, main_scene |-> main, submitted |-> subs]}
    ELSE LET drawn == WorldDrawn(i, ws[i])
         IN  UNION {
                LET merged == AppendScenes(main, drawn.root.scenes, order)
                IN  FrameLoop([ws EXCEPT ![i] = WorldUpdated(i, drawn)],
                              i + 1, merged, Append(subs, merged))
                : order \in Orders(DOMAIN drawn.root.scenes)}

\* A rendered frame: main_scene.reset(), then the loop over the worlds.
FrameOutcomes(ws) == FrameLoop(AgedWorlds(ws), 1, SceneNew, <<>>)

\* App::new(title, width, height)
AppInit ==
    /\ phase = "setup"
    /\ worlds = <<>>
    /\ state = [kind |-> "Suspended", window |-> <<>>]
    /\ windows_created = 0
    /\ width = 800
    /\ height = 600
    /\ new_resize = FALSE
    /\ is_resizing = FALSE
    /\ frame_log = <<>>
    /\ redraw_requested = FALSE
    /\ main_scene = SceneNew
    /\ submitted = <<>>

\* App::new_world
new_world ==
    /\ phase = "setup"
    /\ Len(worlds) < MaxWorlds
    /\ worlds' = Append(worlds, BellaWorldNew)
    /\ UNCHANGED <<phase, state, windows_created, width, height,
                   new_resize, is_resizing, frame_log, redraw_requested,
                   main_scene, submitted>>
    /\ UNCHANGED <<time_vars, input_vars, hist_vars, latch_vars,
                   scene_vars, asset_vars>>

\* App::on_start / on_draw / on_update: a system of the application is
\* added to that schedule of the last world.
AddSystems(schedule) ==
    /\ phase = "setup"
    /\ worlds # <<>>
    /\ worlds' =
          [worlds EXCEPT ![Len(worlds)][schedule] = @ \cup {"user_system"}]
    /\ UNCHANGED <<phase, state, windows_created, width, height,
                   new_resize, is_resizing, frame_log, redraw_requested,
                   main_scene, submitted>>
    /\ UNCHANGED <<time_vars, input_vars, hist_vars, latch_vars,
                   scene_vars, asset_vars>>

\* App::run: the event loop starts.
run ==
    /\ phase = "setup"
    /\ phase' = "running"
    /\ UNCHANGED <<worlds, state, windows_created, width, height,
                   new_resize, is_resizing, frame_log, redraw_requested,
                   main_scene, submitted>>
    /\ UNCHANGED <<time_vars, input_vars, hist_vars, latch_vars,
                   scene_vars, asset_vars>>

\* ApplicationHandler::resumed: returns at once unless Suspended; takes the
\* cached window or creates one; ends Active.
resumed ==
    /\ phase = "running"
    /\ IF state.kind = "Suspended"
       THEN IF state.window # <<>>
            THEN /\ state' = [kind |-> "Active", window |-> state.window]
                 /\ UNCHANGED windows_created
            ELSE /\ windows_created' = windows_created + 1
                 /\ state' =
                       [kind |-> "Active", window |-> <<windows_created'>>]
       ELSE UNCHANGED <<state, windows_created>>
    /\ UNCHANGED <<phase, worlds, width, height,
                   new_resize, is_resizing, frame_log, redraw_requested,
                   main_scene, submitted>>
    /\ UNCHANGED <<time_vars, input_vars, hist_vars, latch_vars,
                   scene_vars, asset_vars>>

\* ApplicationHandler::suspended: Active becomes Suspended(Some(window)).
suspended ==
    /\ phase = "running"
    /\ IF state.kind = "Active"
       THEN state' = [kind |-> "Suspended", window |-> state.window]
       ELSE UNCHANGED state
    /\ UNCHANGED <<phase, worlds, windows_created, width, height,
                   new_resize, is_resizing, frame_log, redraw_requested,
                   main_scene, submitted>>
    /\ UNCHANGED <<time_vars, input_vars, hist_vars, latch_vars,
                   scene_vars, asset_vars>>

\* The window ids events arrive for: that of the app's window (the first
\* one created) and that of another window.
WindowIds == {1, 2}

\* The first match of window_event: the state is Active and the event is
\* for its window.
Accepts(window_id) ==
    /\ state.kind = "Active"
    /\ state.window = <<window_id>>

\* window_event that does not compare the window id.
window_event_AnyWindow(window_id, arm) ==
    /\ phase = "running"
    /\ IF state.kind = "Active" THEN arm ELSE UNCHANGED vars

\* ApplicationHandler::window_event: the event is ignored unless accepted,
\* else the arm of the match for it runs.
window_event(window_id, arm) ==
    /\ phase = "running"
    /\ IF Accepts(window_id) THEN arm ELSE UNCHANGED vars

\* window_event, WindowEvent::CloseRequested
CloseRequested ==
    /\ phase = "running"
    /\ state.kind = "Active"
    /\ phase' = "exited"
    /\ UNCHANGED <<worlds, state, windows_created, width, height,
                   new_resize, is_resizing, frame_log, redraw_requested,
                   main_scene, submitted>>
    /\ UNCHANGED <<time_vars, input_vars, hist_vars, latch_vars,
                   scene_vars, asset_vars>>

\* window_event, WindowEvent::Resized(size)
Resized(size) ==
    /\ phase = "running"
    /\ state.kind = "Active"
    /\ IF size[1] = 0 /\ size[2] = 0
       THEN UNCHANGED <<width, height, is_resizing, new_resize>>
       ELSE /\ width' = size[1]
            /\ height' = size[2]
            /\ is_resizing' = TRUE
            /\ new_resize' = TRUE
    /\ UNCHANGED <<phase, worlds, state, windows_created, frame_log,
                   redraw_requested, main_scene, submitted>>
    /\ UNCHANGED <<time_vars, input_vars, hist_vars, latch_vars,
                   scene_vars, asset_vars>>

\* Input::set_key_down / set_key_up on the Input of a world.
WorldKeyPushed(w, key, pressed) ==
    IF pressed
    THEN [w EXCEPT !.input.key_down_queue = Append(@, key)]
    ELSE [w EXCEPT !.input.key_up_queue = Append(@, key)]

\* The events waiting in the queues of the Input of a world.
WorldPending(w) == Len(w.input.key_down_queue) + Len(w.input.key_up_queue)

\* The KeyboardInput arm pushing to the Input of the first world only.
KeyboardInput_FirstWorld(scancode, pressed) ==
    /\ phase = "running"
    /\ state.kind = "Active"
    /\ \A i \in DOMAIN worlds : WorldPending(worlds[i]) < MaxPending
    /\ IF worlds = <<>>
       THEN UNCHANGED <<phase, worlds>>
       ELSE IF scancode = <<>>
            THEN /\ phase' = "panicked"
                 /\ UNCHANGED worlds
            ELSE /\ worlds' =
                       [worlds EXCEPT
                           ![1] = WorldKeyPushed(@, scancode[1], pressed)]
                 /\ UNCHANGED phase
    /\ UNCHANGED <<state, windows_created, width, height,
                   new_resize, is_resizing, frame_log, redraw_requested,
                   main_scene, submitted>>
    /\ UNCHANGED <<time_vars, input_vars, hist_vars, latch_vars,
                   scene_vars, asset_vars>>

\* window_event, WindowEvent::KeyboardInput, for an event whose
\* physical_key.to_scancode() is scancode (None is <<>>): for every world,
\* in order, the scan code is unwrapped and pushed to the Input of the
\* world; with no world nothing is unwrapped, and unwrapping None panics
\* before anything is pushed.
KeyboardInput(scancode, pressed) ==
    /\ phase = "running"
    /\ state.kind = "Active"
    /\ \A i \in DOMAIN worlds : WorldPending(worlds[i]) < MaxPending
    /\ IF worlds = <<>>
       THEN UNCHANGED <<phase, worlds>>
       ELSE IF scancode = <<>>
            THEN /\ phase' = "panicked"
                 /\ UNCHANGED worlds
            ELSE /\ worlds' =
                       [i \in DOMAIN worlds |->
                           WorldKeyPushed(worlds[i], scancode[1], pressed)]
                 /\ UNCHANGED phase
    /\ UNCHANGED <<state, windows_created, width, height,
                   new_resize, is_resizing, frame_log, redraw_requested,
                   main_scene, submitted>>
    /\ UNCHANGED <<time_vars, input_vars, hist_vars, latch_vars,
                   scene_vars, asset_vars>>

\* The entry of frame_log for context.resize_surface(surface, w, h).
SurfaceResized(w, h) ==
    [world |-> 0, ran |-> "resize_surface", width |-> w, height |-> h]

\* The RedrawRequested arm resizing the surface in every frame.
RedrawRequested_AlwaysResize ==
    /\ phase = "running"
    /\ state.kind = "Active"
    /\ IF is_resizing
       THEN /\ redraw_requested' = TRUE
            /\ is_resizing' = FALSE
            /\ frame_log' = <<>>
            /\ submitted' = <<>>
            /\ UNCHANGED <<worlds, new_resize, main_scene>>
       ELSE /\ new_resize' = FALSE
            /\ frame_log' = <<SurfaceResized(width, height)>>
                               \o FrameRuns(worlds, 1)
            /\ \E out \in FrameOutcomes(worlds) :
                  /\ worlds' = out.worlds
                  /\ main_scene' = out.main_scene
                  /\ submitted' = out.submitted
            /\ redraw_requested' = TRUE
            /\ UNCHANGED is_resizing
    /\ UNCHANGED <<phase, state, windows_created, width, height>>
    /\ UNCHANGED <<time_vars, input_vars, hist_vars, latch_vars,
                   scene_vars, asset_vars>>

\* window_event, WindowEvent::RedrawRequested.  frame_log records, for this
\* handling of the event, the resize of the surface and which schedule ran
\* for which world, in order, and submitted what was handed to the renderer;
\* the clocks of the worlds are not advanced here.
RedrawRequested ==
    /\ phase = "running"
    /\ state.kind = "Active"
    /\ IF is_resizing
       THEN /\ redraw_requested' = TRUE
            /\ is_resizing' = FALSE
            /\ frame_log' = <<>>
            /\ submitted' = <<>>
            /\ UNCHANGED <<worlds, new_resize, main_scene>>
       ELSE /\ new_resize' = FALSE
            /\ frame_log' =
                  (IF new_resize
                   THEN <<SurfaceResized(width, height)>>
                   ELSE <<>>) \o FrameRuns(worlds, 1)
            /\ \E out \in FrameOutcomes(worlds) :
                  /\ worlds' = out.worlds
                  /\ main_scene' = out.main_scene
                  /\ submitted' = out.submitted
            /\ redraw_requested' = TRUE
            /\ UNCHANGED is_resizing
    /\ UNCHANGED <<phase, state, windows_created, width, height>>
    /\ UNCHANGED <<time_vars, input_vars, hist_vars, latch_vars,
                   scene_vars, asset_vars>>

AppNext ==
    \/ new_world
    \/ \E schedule \in {"sch_on_start", "sch_on_draw", "sch_on_update"} :
          AddSystems(schedule)
    \/ run
    \/ resumed
    \/ suspended
    \/ \E window_id \in WindowIds : window_event(window_id, CloseRequested)
    \/ \E window_id \in WindowIds, size \in Sizes :
          window_event(window_id, Resized(size))
    \/ \E window_id \in WindowIds : window_event(window_id, RedrawRequested)

\* The scan code of the key the keyboard events are for.
EventKeys == {0}

\* What physical_key.to_scancode() gives for the events: None for a key
\* with no scan code, else Some(code).
ScanCodes == {<<>>} \cup {<<key>> : key \in EventKeys}

\* The event loop with the keyboard: the worlds are made, then events come.
WindowNext ==
    \/ new_world
    \/ run
    \/ resumed
    \/ suspended
    \/ \E window_id \in WindowIds : window_event(window_id, CloseRequested)
    \/ \E window_id \in WindowIds, size \in Sizes :
          window_event(window_id, Resized(size))
    \/ \E window_id \in WindowIds, scancode \in ScanCodes,
             pressed \in BOOLEAN :
          window_event(window_id, KeyboardInput(scancode, pressed))
    \/ \E window_id \in WindowIds : window_event(window_id, RedrawRequested)

Init ==
    /\ TimeInit /\ InputInit /\ HistInit /\ LatchInit
    /\ SceneInit /\ AssetInit /\ AppInit

TimeSpec == Init /\ [][TimeNext]_vars

InputSpec == Init /\ [][InputNext]_vars

KeySpec == Init /\ [][KeyNext]_vars

SceneSpec == Init /\ [][SceneNext]_vars

AppSpec == Init /\ [][AppNext]_vars

WindowSpec == Init /\ [][WindowNext]_vars

AssetSpec == Init /\ [][AssetNext]_vars

ConcSpec == Init /\ [][ConcNext]_vars

\* The consumer thread is never held up: a running recieve_inputs takes its
\* next step.
ConcFairSpec == ConcSpec /\ WF_vars(LatchStep)

(***************************************************************************)
(* Properties of the clocks.                                               *)
(***************************************************************************)
\* A step in which advance_with_raw_delta runs (through update_time).
VirtualAdvanceStep ==
    \/ update_time
    \/ \E instant \in Instants : time_system(instant)

\* The raw delta handed to advance_with_raw_delta in a VirtualAdvanceStep:
\* the real clock's delta once the real clock has been ticked.
RawDeltaOfStep == real_time'.delta

Min(a, b) == IF a < b THEN a ELSE b

\* s <= 1.0 and s > 1.0 on the modelled f64 values
SpeedLeqOne(s) == s[1] <= s[2]

\* C1 as stated: whatever paused, relative_speed and raw_delta are, the
\* delta stored by advance_with_raw_delta never exceeds max_delta.
C1_AnySpeed ==
    [][VirtualAdvanceStep =>
          virtual_time'.delta <= virtual_time.context.max_delta]_vars

\* C1 amended: when the clock is paused or relative_speed <= 1.0, the delta
\* stored by advance_with_raw_delta never exceeds max_delta (the clamp is
\* applied before the scaling, so a larger speed can exceed it).
C1_DeltaWithinMaxDelta ==
    [][(/\ VirtualAdvanceStep
        /\ \/ virtual_time.context.paused
           \/ SpeedLeqOne(virtual_time.context.relative_speed))
       => virtual_time'.delta <= virtual_time.context.max_delta]_vars

\* An advance at normal speed has clamped a too large raw delta.
C1_Witness ==
    /\ real_time.delta > virtual_time.context.max_delta
    /\ ~virtual_time.context.paused
    /\ virtual_time.context.relative_speed = F64_ONE
    /\ virtual_time.delta = virtual_time.context.max_delta
    /\ time.delta = virtual_time.context.max_delta

\* C2: an advance_with_raw_delta made while paused stores a zero delta,
\* whatever raw_delta and relative_speed are.
C2_PausedDeltaZero ==
    [][(VirtualAdvanceStep /\ virtual_time.context.paused)
       => /\ virtual_time'.delta = 0
          /\ virtual_time'.delta_seconds = F64_ZERO]_vars

\* A paused advance at speed 2.0 has turned a non-zero raw delta into zero.
C2_Witness ==
    /\ virtual_time.context.paused
    /\ virtual_time.context.relative_speed = F64(2, 1)
    /\ virtual_time.context.effective_speed = F64_ZERO
    /\ real_time.delta > 0
    /\ virtual_time.delta = 0
    /\ time.delta = 0
    /\ real_time.context.last_update # <<>>

\* C3 as stated: every advance made with relative_speed == 1.0 stores
\* min(raw_delta, max_delta).
C3_SpeedOneAlways ==
    [][(VirtualAdvanceStep /\ virtual_time.context.relative_speed = F64_ONE)
       => virtual_time'.delta =
             Min(RawDeltaOfStep, virtual_time.context.max_delta)]_vars

\* C3 amended: every advance made with relative_speed == 1.0 while the
\* clock is not paused stores min(raw_delta, max_delta) exactly.
C3_SpeedOneExact ==
    [][(/\ VirtualAdvanceStep
        /\ virtual_time.context.relative_speed = F64_ONE
        /\ ~virtual_time.context.paused)
       => virtual_time'.delta =
             Min(RawDeltaOfStep, virtual_time.context.max_delta)]_vars

\* An unpaused advance at speed 1.0 has stored an odd raw delta unchanged.
C3_Witness ==
    /\ ~virtual_time.context.paused
    /\ virtual_time.context.relative_speed = F64_ONE
    /\ virtual_time.context.effective_speed = F64_ONE
    /\ real_time.delta = InstantAt(1) - InstantAt(0)
    /\ virtual_time.delta = real_time.delta
    /\ time.delta = real_time.delta

\* C4 as stated: in every reachable state effective_speed == 0 iff paused.
C4_ZeroIffPaused ==
    (virtual_time.context.effective_speed = F64_ZERO)
        <=> virtual_time.context.paused

\* C4 amended: effective_speed is the multiplier of the last advance: right
\* after every advance_with_raw_delta it is 0 if paused and relative_speed
\* otherwise, and no other operation changes it.
C4_EffectiveSpeedOfLastAdvance ==
    [][/\ VirtualAdvanceStep =>
            virtual_time'.context.effective_speed =
               IF virtual_time.context.paused
               THEN F64_ZERO
               ELSE virtual_time.context.relative_speed
       /\ ~VirtualAdvanceStep =>
            virtual_time'.context.effective_speed =
               virtual_time.context.effective_speed]_vars

\* An advance made while paused has set effective_speed to zero.
C4_Witness ==
    /\ virtual_time.context.paused
    /\ virtual_time.context.relative_speed = F64(1, 2)
    /\ virtual_time.context.effective_speed = F64_ZERO

\* C5: for each of the three clocks the cached delta_seconds is the
\* seconds conversion of delta, in every reachable state.
C5_DeltaSecondsCached ==
    /\ real_time.delta_seconds = as_secs_f64(real_time.delta)
    /\ virtual_time.delta_seconds = as_secs_f64(virtual_time.delta)
    /\ time.delta_seconds = as_secs_f64(time.delta)

\* All three clocks hold a non-zero delta, the generic one a copy of the
\* virtual one's half-speed delta.
C5_Witness ==
    /\ real_time.delta = DEFAULT_MAX_DELTA
    /\ virtual_time.delta = DEFAULT_MAX_DELTA \div 2
    /\ time.delta = DEFAULT_MAX_DELTA \div 2
    /\ time.delta_seconds = <<1, 8>>

\* C6: the first tick of the real clock records the instant as first_update
\* and last_update and leaves delta as it was (zero); a later tick with a
\* strictly larger instant sets delta to the difference to last_update,
\* moves last_update to the instant and keeps first_update.
C6_RealClockTicks ==
    [][\A instant \in Instants :
          (RealUpdate(instant) \/ time_system(instant)) =>
             IF real_time.context.last_update = <<>>
             THEN /\ real_time'.context.first_update = <<instant>>
                  /\ real_time'.context.last_update = <<instant>>
                  /\ real_time'.delta = real_time.delta
                  /\ real_time'.delta_seconds = real_time.delta_seconds
             ELSE instant > real_time.context.last_update[1] =>
                  /\ real_time'.delta =
                        instant - real_time.context.last_update[1]
                  /\ real_time'.context.last_update = <<instant>>
                  /\ real_time'.context.first_update =
                        real_time.context.first_update]_vars

\* Ticks at t0 < t1 < t2 have been made: delta is t2 - t1, first_update t0.
C6_Witness ==
    /\ real_time.context.first_update = <<InstantAt(0)>>
    /\ real_time.context.last_update = <<InstantAt(2)>>
    /\ real_time.delta = InstantAt(2) - InstantAt(1)

(***************************************************************************)
(* Properties of the input latch.                                          *)
(***************************************************************************)
\* No value occurs twice in the Vec v.
NoDuplicates(v) == \A i, j \in 1..Len(v) : v[i] = v[j] => i = j

\* C7: a latch that finds both a down and an up of code k queued, from any
\* prior state, reports k in key_down and in key_up and leaves it out of
\* key_press.
C7_TapSameFrame ==
    [][recieve_inputs =>
          \A k \in Codes :
             (k \in Elems(key_down_queue) /\ k \in Elems(key_up_queue)) =>
                /\ k \in Elems(key_down')
                /\ k \in Elems(key_up')
                /\ k \notin Elems(key_press')]_vars

\* Code 1 was tapped within one frame while code 0 stays held.
C7_Witness ==
    /\ key_down = <<1>>
    /\ key_up = <<1>>
    /\ key_press = <<0>>

\* C8: a latch that finds a down of code k queued and no up of k reports k
\* in key_press and in key_down and not in key_up.
C8_DownThenLatch ==
    [][recieve_inputs =>
          \A k \in Codes :
             (k \in Elems(key_down_queue) /\ k \notin Elems(key_up_queue)) =>
                /\ k \in Elems(key_press')
                /\ k \in Elems(key_down')
                /\ k \notin Elems(key_up')]_vars

\* Code 1 went down in the frame in which code 0 went up.
C8_Witness ==
    /\ key_down = <<1>>
    /\ key_up = <<0>>
    /\ key_press = <<1>>
    /\ key_down_queue = <<>>
    /\ key_up_queue = <<>>

\* C9: every latch leaves the key queues empty, and a latch that finds
\* them empty (a second latch with no push in between) ends with key_down
\* and key_up empty and key_press as it was.
C9_LatchIdempotent ==
    [][recieve_inputs =>
          /\ key_down_queue' = <<>>
          /\ key_up_queue' = <<>>
          /\ (key_down_queue = <<>> /\ key_up_queue = <<>>) =>
                /\ key_down' = <<>>
                /\ key_up' = <<>>
                /\ key_press' = key_press]_vars

\* down(0), latch, latch: the key is held and nothing changed this frame.
C9_Witness ==
    /\ key_press = <<0>>
    /\ key_down = <<>>
    /\ key_up = <<>>
    /\ Pending = 0

\* C10: key_press holds each code at most once and mouse_press each button
\* at most once, in every reachable state.
C10_PressNoDuplicates ==
    /\ NoDuplicates(key_press)
    /\ NoDuplicates(mouse_press)

\* Code 0 was pushed twice to the down queue in one frame.
C10_Witness ==
    /\ key_down = <<0, 0>>
    /\ key_press = <<0>>

(***************************************************************************)
(* Properties of the key history, the frame effects and the cursor.        *)
(***************************************************************************)
\* C11 as stated: in every reachable state the latest push of a code held
\* in key_press is a down (no up was pushed after it).
C11_HeldMeansDownLast ==
    \A k \in Codes : k \in Elems(key_press) => last_push[k] = "down"

\* C11 amended: for every code held in key_press, either its latest push
\* is a down or the up pushed since then is still waiting in key_up_queue
\* (no latch has consumed an up pushed after the down that added the code).
C11_HeldUnlessUpPending ==
    \A k \in Codes :
       k \in Elems(key_press) =>
          \/ last_push[k] = "down"
          \/ k \in Elems(key_up_queue)

\* Both codes are held; an up of code 0 was pushed and is not latched yet.
C11_Witness ==
    /\ key_press = <<0, 1>>
    /\ last_push[0] = "up"
    /\ last_push[1] = "down"
    /\ key_up_queue = <<0>>

\* C12: a latch sets key_down to exactly the content of key_down_queue, in
\* queue order with duplicates, and key_up to that of key_up_queue; nothing
\* of the earlier frame stays.
C12_TransitionsAreTheQueues ==
    [][recieve_inputs =>
          /\ key_down' = key_down_queue
          /\ key_up' = key_up_queue]_vars

\* Codes 1 and 0 were pushed down in this order and latched.
C12_Witness ==
    /\ key_down = <<1, 0>>
    /\ key_up = <<>>
    /\ key_press = <<1, 0>>
    /\ Pending = 0

\* C13: after a latch the codes of key_press are those held before plus
\* those of the down queue, minus those of the up queue.
C13_PressSet ==
    [][recieve_inputs =>
          Elems(key_press') =
             (Elems(key_press) \cup Elems(key_down_queue))
                \ Elems(key_up_queue)]_vars

\* Codes 0 and 1 were held and code 0 was released in the last frame.
C13_Witness ==
    /\ key_press = <<1>>
    /\ key_up = <<0>>
    /\ key_down = <<>>
    /\ Pending = 0

\* q2 is q with one element appended.
GrewByOne(q, q2) ==
    /\ Len(q2) = Len(q) + 1
    /\ SubSeq(q2, 1, Len(q)) = q

\* C14: a step that pushes an event appends it to one queue and changes
\* nothing else: the other queues, key_down, key_up, key_press, mouse_down,
\* mouse_up, mouse_press and mouse_pos stay as they are.
C14_PushTouchesOneQueue ==
    [][Pending' > Pending =>
          /\ UNCHANGED <<key_down, key_up, key_press,
                         mouse_pos, mouse_down, mouse_up, mouse_press>>
          /\ Pending' = Pending + 1
          /\ key_down_queue' = key_down_queue
                \/ GrewByOne(key_down_queue, key_down_queue')
          /\ key_up_queue' = key_up_queue
                \/ GrewByOne(key_up_queue, key_up_queue')
          /\ mouse_pos_queue' = mouse_pos_queue
                \/ GrewByOne(mouse_pos_queue, mouse_pos_queue')
          /\ mouse_down_queue' = mouse_down_queue
                \/ GrewByOne(mouse_down_queue, mouse_down_queue')
          /\ mouse_up_queue' = mouse_up_queue
                \/ GrewByOne(mouse_up_queue, mouse_up_queue')]_vars

\* A key down and a cursor position are queued and not visible yet.
C14_Witness ==
    /\ key_down_queue = <<1>>
    /\ mouse_pos_queue = <<Vec2(1, 1)>>
    /\ key_down = <<>>
    /\ key_press = <<>>
    /\ mouse_pos = Vec2(0, 0)

\* C20: a latch leaves mouse_pos_queue empty and mouse_pos at the last
\* position of the queue, or as it was when the queue was empty.
C20_CursorLastPosition ==
    [][recieve_inputs =>
          /\ mouse_pos_queue' = <<>>
          /\ mouse_pos' = IF mouse_pos_queue = <<>>
                          THEN mouse_pos
                          ELSE mouse_pos_queue[Len(mouse_pos_queue)]]_vars

\* The cursor was latched at (0, 1) and a key frame came after it.
C20_Witness ==
    /\ mouse_pos = Vec2(0, 1)
    /\ mouse_pos_queue = <<>>
    /\ key_down = <<0>>

(***************************************************************************)
(* Properties of the frame loop.                                           *)
(***************************************************************************)
\* The places of log at which world i ran the system sys.
RunsOf(log, ws, i, sys) ==
    {p \in DOMAIN log :
        /\ log[p].world = i
        /\ log[p].ran # "render"
        /\ sys \in ws[i][log[p].ran]}

\* The places of log at which world i ran the schedule.
PlacesOf(log, i, schedule) ==
    {p \in DOMAIN log : log[p].world = i /\ log[p].ran = schedule}

\* Every place of the set P comes before every place of the set Q.
AllBefore(P, Q) == \A p \in P, q \in Q : p < q

\* C15: in a rendered frame every world runs sch_on_first, sch_on_draw,
\* sch_on_pre_update, sch_on_update and sch_on_last once each in this
\* order; time_system runs before recieve_inputs and recieve_inputs before
\* the systems of sch_on_update.
C15_ScheduleOrder ==
    frame_log # <<>> =>
       \A i \in DOMAIN worlds :
          /\ \A schedule \in {"sch_on_first", "sch_on_draw",
                              "sch_on_pre_update", "sch_on_update",
                              "sch_on_last"} :
                Cardinality(PlacesOf(frame_log, i, schedule)) = 1
          /\ AllBefore(PlacesOf(frame_log, i, "sch_on_first"),
                       PlacesOf(frame_log, i, "sch_on_draw"))
          /\ AllBefore(PlacesOf(frame_log, i, "sch_on_draw"),
                       PlacesOf(frame_log, i, "sch_on_pre_update"))
          /\ AllBefore(PlacesOf(frame_log, i, "sch_on_pre_update"),
                       PlacesOf(frame_log, i, "sch_on_update"))
          /\ AllBefore(PlacesOf(frame_log, i, "sch_on_update"),
                       PlacesOf(frame_log, i, "sch_on_last"))
          /\ RunsOf(frame_log, worlds, i, "time_system") # {}
          /\ RunsOf(frame_log, worlds, i, "recieve_inputs") # {}
          /\ AllBefore(RunsOf(frame_log, worlds, i, "time_system"),
                       RunsOf(frame_log, worlds, i, "recieve_inputs"))
          /\ AllBefore(RunsOf(frame_log, worlds, i, "recieve_inputs"),
                       PlacesOf(frame_log, i, "sch_on_update"))

\* A later frame of two worlds, the second with a system in sch_on_update.
C15_Witness ==
    /\ Len(worlds) = 2
    /\ Len(frame_log) = 12
    /\ "user_system" \in worlds[2].sch_on_update

\* C16 as stated: every handled redraw request runs time_system once and
\* recieve_inputs once for every world.
C16_OncePerRedraw ==
    [][RedrawRequested =>
          \A i \in DOMAIN worlds :
             /\ Cardinality(RunsOf(frame_log', worlds', i, "time_system")) = 1
             /\ Cardinality(RunsOf(frame_log', worlds', i, "recieve_inputs"))
                   = 1]_vars

\* C16 amended: a redraw request handled while is_resizing is false (a
\* rendered frame) runs time_system once and recieve_inputs once for every
\* world; one handled while is_resizing is true runs neither.
C16_OncePerRenderedFrame ==
    [][RedrawRequested =>
          \A i \in DOMAIN worlds :
             /\ Cardinality(RunsOf(frame_log', worlds', i, "time_system"))
                   = IF is_resizing THEN 0 ELSE 1
             /\ Cardinality(RunsOf(frame_log', worlds', i, "recieve_inputs"))
                   = IF is_resizing THEN 0 ELSE 1]_vars

\* A frame of two worlds rendered after a resize and its skipped redraw.
C16_Witness ==
    /\ Len(worlds) = 2
    /\ width = 640
    /\ ~is_resizing
    /\ ~new_resize
    /\ Len(frame_log) = 15

\* C17: no push, latch or key query terminates the process.
C17_NeverHalts == ~halted

\* C18: get_scene of a name that new_scene never registered returns None
\* and leaves max_scene_id, scenes and scene_names as they are.
C18_GetSceneUnknown ==
    [][\A name \in Names :
          (get_scene(name) /\ name \notin DOMAIN scene_names) =>
             /\ scene_result' = <<>>
             /\ UNCHANGED <<max_scene_id, scenes, scene_names>>]_vars

\* Scene "a" exists with a command in it; the last call returned None.
C18_Witness ==
    /\ DOMAIN scene_names = {"a"}
    /\ max_scene_id = 2
    /\ scenes[2] # SceneNew
    /\ scene_result = <<>>

\* C19: a world runs sch_on_start in a rendered frame exactly when its
\* on_start flag is still set, then as the first thing it runs in that
\* frame; the frame clears the flag, and a cleared flag stays cleared, so
\* the schedule runs in the world's first rendered frame and never again.
C19_StartOnce ==
    [][/\ (RedrawRequested /\ ~is_resizing) =>
             \A i \in DOMAIN worlds :
                /\ Cardinality(PlacesOf(frame_log', i, "sch_on_start"))
                      = IF worlds[i].on_start THEN 1 ELSE 0
                /\ \A p \in PlacesOf(frame_log', i, "sch_on_start") :
                      \A q \in DOMAIN frame_log' :
                         (frame_log'[q].world = i /\ q # p) => p < q
                /\ ~worlds'[i].on_start
       /\ (RedrawRequested /\ is_resizing) =>
             /\ frame_log' = <<>>
             /\ worlds' = worlds
       /\ \A i \in DOMAIN worlds :
             ~worlds[i].on_start =>
                (i \in DOMAIN worlds' /\ ~worlds'[i].on_start)]_vars

\* The second rendered frame of a world with a system in sch_on_start.
C19_Witness ==
    /\ Len(worlds) = 1
    /\ "user_system" \in worlds[1].sch_on_start
    /\ ~worlds[1].on_start
    /\ Len(frame_log) = 6

(***************************************************************************)
(* Properties of the clocks over several frames.                           *)
(***************************************************************************)
\* C22: the delta an advance stores is determined by the raw delta of that
\* advance and by max_delta, paused and relative_speed as they are then:
\* the raw delta clamped to max_delta, times the effective speed.  What the
\* clamp cut off and what earlier advances stored play no part.
C22_NoBacklog ==
    [][VirtualAdvanceStep =>
          virtual_time'.delta \in
             ScaledDeltas(ClampedDelta(RawDeltaOfStep,
                                       virtual_time.context.max_delta),
                          EffectiveSpeed(virtual_time.context))]_vars

\* A raw delta above max_delta was cut to max_delta and halved by the
\* speed 0.5.
C22_Witness ==
    /\ real_time.delta > virtual_time.context.max_delta
    /\ ~virtual_time.context.paused
    /\ virtual_time.context.relative_speed = F64(1, 2)
    /\ virtual_time.delta = virtual_time.context.max_delta \div 2
    /\ time.delta = virtual_time.delta
    /\ real_time.context.last_update = <<InstantAt(3)>>

\* C28: after every time_system run the generic clock holds the delta and
\* delta_seconds of the virtual clock, and the virtual clock's delta is the
\* one computed from the delta the real clock got in that run; in the first
\* run the real clock keeps its delta, and with the zero delta of a new
\* world all three deltas are zero.
C28_GenericMirrorsVirtual ==
    [][\A instant \in Instants :
          time_system(instant) =>
             /\ time'.delta = virtual_time'.delta
             /\ time'.delta_seconds = virtual_time'.delta_seconds
             /\ time'.wrap_period = virtual_time'.wrap_period
             /\ virtual_time'.delta \in
                   ScaledDeltas(ClampedDelta(real_time'.delta,
                                             virtual_time.context.max_delta),
                                EffectiveSpeed(virtual_time.context))
             /\ real_time.context.last_update = <<>> =>
                   /\ real_time'.delta = real_time.delta
                   /\ real_time.delta = 0 =>
                         /\ virtual_time'.delta = 0
                         /\ time'.delta = 0]_vars

\* A run at speed 2.0: the generic clock holds the doubled real delta.
C28_Witness ==
    /\ ~virtual_time.context.paused
    /\ virtual_time.context.relative_speed = F64(2, 1)
    /\ real_time.delta = InstantAt(1) - InstantAt(0)
    /\ virtual_time.delta = 2 * real_time.delta
    /\ time.delta = virtual_time.delta
    /\ time.delta_seconds = virtual_time.delta_seconds

ButtonCode(b) == IF b = "Left" THEN 0 ELSE 1

\* A Vec or queue of buttons, renamed to key codes.
Renamed(v) == [i \in DOMAIN v |-> ButtonCode(v[i])]

\* C21: every latch changes mouse_down, mouse_up and mouse_press as the key
\* part of the latch changes key_down, key_up and key_press from the same
\* Vecs and queues with the buttons renamed to key codes.
C21_ButtonsMirrorKeys ==
    [][recieve_inputs =>
          LET keys == LatchKeys(Renamed(mouse_down), Renamed(mouse_up),
                                Renamed(mouse_press),
                                Renamed(mouse_down_queue),
                                Renamed(mouse_up_queue))
          IN  /\ Renamed(mouse_down') = keys.down
              /\ Renamed(mouse_up') = keys.up
              /\ Renamed(mouse_press') = keys.press]_vars

\* Right is held; Left went down and up within the last frame.
C21_Witness ==
    /\ mouse_press = <<"Right">>
    /\ mouse_down = <<"Left">>
    /\ mouse_up = <<"Left">>
    /\ Pending = 0

(***************************************************************************)
(* Properties of the latch with producers pushing while it runs.           *)
(***************************************************************************)
\* C23: whatever the interleaving of pushes and drain steps, once no latch
\* is running and every pushed event has been consumed, a code whose latest
\* push was an up is not in key_press.
C23_ReleasedNotHeld ==
    \A k \in Codes :
       (pc = "idle" /\ Pending = 0 /\ last_push[k] = "up") =>
          k \notin Elems(key_press)

\* recieve_inputs leaves the loop standing at the test "from" for "to".
LoopLeft(from, to) == pc = from /\ pc' = to

\* C24: a recieve_inputs run that has started ends, whatever the producers
\* push (at most MaxPushes events), it leaves each of its five loops only
\* on seeing that loop's queue empty, and while it runs its next step never
\* waits for a producer.
C24_LatchTerminates ==
    /\ (pc # "idle") ~> (pc = "idle")
    /\ [](pc # "idle" => ENABLED LatchStep)
    /\ [][/\ LoopLeft("key_down", "key_up") => key_down_queue = <<>>
          /\ LoopLeft("key_up", "mouse_pos") => key_up_queue = <<>>
          /\ LoopLeft("mouse_pos", "mouse_down") => mouse_pos_queue = <<>>
          /\ LoopLeft("mouse_down", "mouse_up") => mouse_down_queue = <<>>
          /\ LoopLeft("mouse_up", "idle") => mouse_up_queue = <<>>
          /\ pc' = "idle" => pc \in {"idle", "mouse_up"}]_vars

\* A run has ended with every queue empty after MaxPushes pushes, a key
\* and a button held.
C24_Witness ==
    /\ pc = "idle"
    /\ pushes = MaxPushes
    /\ Pending = 0
    /\ key_press = <<1>>
    /\ mouse_press = <<"Left">>
    /\ mouse_pos = Vec2(1, 0)

\* C26: no pop().unwrap() of recieve_inputs meets an empty queue: when the
\* latch stands before a pop, the queue it pops holds an element, and the
\* process is never ended by the panic.
C26_PopFindsElement ==
    /\ ~halted
    /\ pc = "key_down_pop" => key_down_queue # <<>>
    /\ pc = "key_up_pop" => key_up_queue # <<>>
    /\ pc = "mouse_pos_pop" => mouse_pos_queue # <<>>
    /\ pc = "mouse_down_pop" => mouse_down_queue # <<>>
    /\ pc = "mouse_up_pop" => mouse_up_queue # <<>>

\* The latch stands before the pop of the cursor queue, which got a second
\* position after the test.
C26_Witness ==
    /\ pc = "mouse_pos_pop"
    /\ Len(mouse_pos_queue) = 2
    /\ key_up = <<0>>

\* What the game logic has been or will be shown of a queue: the Vec of the
\* frame followed by the queue.
Stream(v, queue) == v \o queue

\* The stream of a queue over one step: unchanged (a pop moves the head of
\* the queue to the end of the Vec), or longer by the pushed event, or cut
\* down to the queue by the clear() calls that start a run.
StreamStep(v, queue, v2, queue2) ==
    \/ /\ Stream(v2, queue2) = Stream(v, queue)
       /\ Len(v2) \in {Len(v), Len(v) + 1}
    \/ /\ \E k \in Codes : Stream(v2, queue2) = Append(Stream(v, queue), k)
       /\ v2 = v
    \/ /\ pc = "idle" /\ pc' = "key_down"
       /\ v2 = <<>>
       /\ queue2 = queue

\* C27: every pushed key event is reported exactly once: a step moves an
\* event from the head of its queue to the end of key_down (key_up), or
\* appends a pushed event to the queue, and only the start of the next run
\* drops what key_down (key_up) holds; a run leaves the loop of a queue
\* only when the queue is empty, so an event pushed before is in the Vec of
\* this run or was in the Vec of an earlier one.
C27_ExactlyOnce ==
    [][/\ StreamStep(key_down, key_down_queue, key_down', key_down_queue')
       /\ StreamStep(key_up, key_up_queue, key_up', key_up_queue')
       /\ LoopLeft("key_down", "key_up") => key_down_queue = <<>>
       /\ LoopLeft("key_up", "mouse_pos") => key_up_queue = <<>>]_vars

\* A down pushed after the down loop of a run waits for the next run, the
\* up pushed after it was reported by this run.
C27_Witness ==
    /\ pc = "idle"
    /\ key_down = <<>>
    /\ key_up = <<1>>
    /\ key_down_queue = <<1>>
    /\ key_press = <<>>
    /\ last_push[1] = "up"

\* The entries of a frame's log that resize the surface.
ResizesIn(log) == {n \in DOMAIN log : log[n].ran = "resize_surface"}

\* C29: a Resized event that is not 0 x 0 stores the size and sets
\* is_resizing and new_resize, and a 0 x 0 one changes nothing.  The
\* RedrawRequested that finds is_resizing set runs no schedule and renders
\* nothing, clears is_resizing, requests another redraw and leaves new_resize
\* set (is_resizing is never set without new_resize), so the RedrawRequested
\* after it, finding new_resize set, resizes the surface to the stored width
\* and height once, before any schedule runs, and clears new_resize; a
\* RedrawRequested that finds neither flag set resizes nothing.
C29_ResizeHandling ==
    /\ [](is_resizing => new_resize)
    /\ [][/\ \A size \in Sizes :
               Resized(size) =>
                  IF size = <<0, 0>>
                  THEN UNCHANGED vars
                  ELSE /\ width' = size[1]
                       /\ height' = size[2]
                       /\ is_resizing'
                       /\ new_resize'
                       /\ UNCHANGED <<worlds, frame_log, redraw_requested>>
          /\ (RedrawRequested /\ is_resizing) =>
                /\ frame_log' = <<>>
                /\ ~is_resizing'
                /\ redraw_requested'
                /\ UNCHANGED <<worlds, new_resize, width, height>>
          /\ (RedrawRequested /\ ~is_resizing) =>
                /\ ResizesIn(frame_log') = IF new_resize THEN {1} ELSE {}
                /\ new_resize =>
                      frame_log'[1] = SurfaceResized(width, height)
                /\ ~new_resize'
                /\ ~is_resizing'
                /\ UNCHANGED <<width, height>>]_vars

\* A frame was rendered after a resize to 640 x 480: its log starts with the
\* resize of the surface to that size, the schedules follow, and both flags
\* are clear again.
C29_Witness ==
    /\ Len(frame_log) > 1
    /\ frame_log[1] = SurfaceResized(640, 480)
    /\ frame_log[2].ran # "resize_surface"
    /\ ~is_resizing
    /\ ~new_resize
    /\ redraw_requested

\* What an event handler may change besides the render state: the loop's
\* phase, the worlds, the window size and its flags, the frame's log, the
\* redraw request and the Input.
Handled == <<phase, worlds, width, height, new_resize, is_resizing,
             frame_log, redraw_requested, main_scene, submitted,
             input_vars>>

\* C30: the app starts Suspended with no cached window.  resumed changes
\* nothing when Active, and from Suspended ends Active with the cached window
\* when there is one (no window is created) and with a newly created one
\* otherwise.  suspended moves Active to Suspended holding the same window.
\* While the loop runs and the state is Suspended no step changes anything
\* but the render state, and a window event for another window than the
\* active one changes nothing at all.
C30_RenderStateMachine ==
    /\ state = [kind |-> "Suspended", window |-> <<>>]
    /\ [][/\ resumed =>
               IF state.kind = "Active"
               THEN UNCHANGED vars
               ELSE /\ state'.kind = "Active"
                    /\ IF state.window # <<>>
                       THEN /\ state'.window = state.window
                            /\ windows_created' = windows_created
                       ELSE /\ state'.window = <<windows_created + 1>>
                            /\ windows_created' = windows_created + 1
          /\ suspended =>
               IF state.kind = "Active"
               THEN state' = [kind |-> "Suspended", window |-> state.window]
               ELSE UNCHANGED vars
          /\ windows_created' # windows_created =>
               state = [kind |-> "Suspended", window |-> <<>>]
          /\ (phase = "running" /\ state.kind = "Suspended") =>
               UNCHANGED Handled
          /\ \A window_id \in WindowIds :
               ~Accepts(window_id) =>
                  /\ window_event(window_id, CloseRequested)
                        => UNCHANGED vars
                  /\ window_event(window_id, RedrawRequested)
                        => UNCHANGED vars
                  /\ \A size \in Sizes :
                        window_event(window_id, Resized(size))
                           => UNCHANGED vars
                  /\ \A scancode \in ScanCodes, pressed \in BOOLEAN :
                        window_event(window_id,
                                     KeyboardInput(scancode, pressed))
                           => UNCHANGED vars]_vars

\* The app is Suspended holding the one window it created, after a frame
\* was rendered and while a key press waits in the queue.
C30_Witness ==
    /\ phase = "running"
    /\ state = [kind |-> "Suspended", window |-> <<1>>]
    /\ windows_created = 1
    /\ frame_log # <<>>
    /\ worlds # <<>>
    /\ worlds[1].input.key_down_queue # <<>>

\* load_file::<T>(url) has succeeded before: the url is in the list of T.
Cached(T, url) == T \in DOMAIN assets /\ url \in DOMAIN assets[T]

\* C34: once load_file::<T>(url) has succeeded, every later call for that
\* url returns the asset stored by the first success, whatever reading the
\* file gives this time, and the stored asset is never replaced; a call
\* whose read fails on a url not yet cached returns None and adds no entry.
C34_CachedAlwaysReturned ==
    [][\A T \in Formats, url \in Urls, read \in Reads :
          load_file(T, url, read) =>
             /\ Cached(T, url) =>
                   /\ load_result'.returned = <<assets[T][url]>>
                   /\ assets'[T][url] = assets[T][url]
             /\ (~Cached(T, url) /\ read = <<>>) =>
                   /\ load_result'.returned = <<>>
                   /\ url \notin DOMAIN assets'[T]]_vars

\* The commands of world j in a scene.
CommandsOf(scene, j) == {n \in DOMAIN scene : scene[n].world = j}

\* C32: in every rendered frame main_scene is reset before the first world
\* is processed and the scenes of a world are reset, in sch_on_first, before
\* its sch_on_draw runs: what is handed to the renderer for world i holds
\* only commands encoded in this frame by the draw systems of the worlds up
\* to i, one for each draw system, and nothing encoded in an earlier frame
\* or by sch_on_start or sch_on_update.
C32_OnlyThisFrame ==
    [][(RedrawRequested /\ ~is_resizing) =>
          /\ Len(submitted') = Len(worlds)
          /\ main_scene' =
                IF worlds = <<>> THEN SceneNew ELSE submitted'[Len(worlds)]
          /\ \A i \in DOMAIN submitted' :
                /\ \A n \in DOMAIN submitted'[i] :
                      /\ submitted'[i][n].age = "new"
                      /\ submitted'[i][n].sch = "sch_on_draw"
                      /\ submitted'[i][n].world \in 1..i
                /\ \A j \in 1..i :
                      Cardinality(CommandsOf(submitted'[i], j)) =
                         IF "user_system" \in worlds[j].sch_on_draw
                         THEN 1 ELSE 0]_vars

\* Two worlds were rendered; the first draws in sch_on_start, sch_on_draw and
\* sch_on_update, and its scene still holds the command of sch_on_update
\* when the frame ends; the second was rendered with the commands of both.
C32_Witness ==
    /\ Len(submitted) = 2
    /\ Len(submitted[1]) = 1
    /\ Len(submitted[2]) = 2
    /\ "user_system" \in worlds[1].sch_on_start
    /\ ~worlds[1].on_start
    /\ \E n \in DOMAIN worlds[1].root.scenes[1] :
          worlds[1].root.scenes[1][n].sch = "sch_on_update"

RECURSIVE CommandCount(_, _)
CommandCount(root_scenes, order) ==
    IF order = <<>> THEN 0
    ELSE Len(root_scenes[Head(order)])
            + CommandCount(root_scenes, Tail(order))

\* C31: max_scene_id counts the new_scene calls and the ids are 1 up to it,
\* one scene for each; every id in scene_names is a key of scenes;
\* new_scene(name) points the name at the new id and leaves the scenes that
\* were there in place, so get_scene(name) returns the scene of the latest
\* new_scene(name); a scene whose name was registered again is still reset
\* with the others and still appended to the main scene with all it holds.
C31_RegistryInvariants ==
    /\ [](/\ DOMAIN scenes = 1..max_scene_id
          /\ \A name \in DOMAIN scene_names :
                scene_names[name] \in DOMAIN scenes
          /\ \A order \in Orders(DOMAIN scenes) :
                Len(AppendScenes(SceneNew, scenes, order))
                   = CommandCount(scenes, order))
    /\ [][/\ \A name \in Names :
                new_scene(name) =>
                   /\ max_scene_id' = max_scene_id + 1
                   /\ max_scene_id' \notin DOMAIN scenes
                   /\ scene_names'[name] = max_scene_id'
                   /\ scene_result' = <<max_scene_id'>>
                   /\ \A id \in DOMAIN scenes : scenes'[id] = scenes[id]
                   /\ \A other \in DOMAIN scene_names \ {name} :
                         scene_names'[other] = scene_names[other]
          /\ max_scene_id' # max_scene_id =>
                \E name \in Names : new_scene(name)
          /\ \A name \in DOMAIN scene_names :
                /\ get_scene(name) => scene_result' = <<scene_names[name]>>
                /\ scene_names'[name] # scene_names[name] => new_scene(name)
          /\ bella_instance_reset =>
                \A id \in DOMAIN scenes : scenes'[id] = SceneNew]_vars

\* The name "a" was registered twice: get_scene("a") returned the second
\* scene, and the first, which no name points at any more, still holds the
\* command drawn into it.
C31_Witness ==
    /\ max_scene_id >= 2
    /\ "a" \in DOMAIN scene_names
    /\ scene_names["a"] = 2
    /\ scene_result = <<2>>
    /\ \A name \in DOMAIN scene_names : scene_names[name] # 1
    /\ Len(scenes[1]) = 1

====
